---- MODULE Spec2Model ----
(***************************************************************************)
(* A model of the mustache renderer of src/template.py: the Template       *)
(* class (section expansion, tag rendering, context resolution, delimiter  *)
(* state) as a state machine.  Text is a TLA+ string; a context value is a *)
(* tagged record [k |-> kind, v |-> payload].                              *)
(***************************************************************************)
EXTENDS Integers, Sequences, FiniteSets, TLC

(***************************************************************************)
(* Bounds of the model.                                                    *)
(***************************************************************************)
\* Longest template text a rewriting step may produce.
MaxLen == 80
\* Deepest nesting of render calls (section recursion, partials).
MaxDepth == 4

(***************************************************************************)
(* Text helpers: Python str operations used by the source.  A value that   *)
(* is used more than once is passed on as a parameter.                     *)
(***************************************************************************)
\* s[i-1:i]: the character at position i, empty outside the text.
Char(s, i) == IF i >= 1 /\ i <= Len(s) THEN SubSeq(s, i, i) ELSE ""

StartsWith(s, i, pat) ==
    /\ i >= 1
    /\ i + Len(pat) - 1 <= Len(s)
    /\ SubSeq(s, i, i + Len(pat) - 1) = pat

Min(S) == CHOOSE x \in S : \A y \in S : x <= y
Max(S) == CHOOSE x \in S : \A y \in S : x >= y
MinOr0(S) == IF S = {} THEN 0 ELSE Min(S)

\* str.find(pat, from) with 1-based positions; 0 when absent.
IndexOf(s, pat, from) ==
    MinOr0({j \in from..(Len(s) - Len(pat) + 1) : StartsWith(s, j, pat)})

Contains(s, pat) == IndexOf(s, pat, 1) # 0

RunTo(i, n, stop) ==
    IF i > n THEN 0 ELSE IF stop = 0 THEN n - i + 1 ELSE stop - i

\* Number of consecutive copies of the one-character text c from position i on.
RunLen(s, i, c) ==
    RunTo(i, Len(s), MinOr0({j \in i..Len(s) : Char(s, j) # c}))

RECURSIVE Replace(_, _, _)
ReplaceAt(s, old, new, j) ==
    IF old = "" \/ j = 0 THEN s
    ELSE SubSeq(s, 1, j - 1) \o new
         \o Replace(SubSeq(s, j + Len(old), Len(s)), old, new)

\* str.replace(old, new): every non-overlapping occurrence, left to right.
Replace(s, old, new) == ReplaceAt(s, old, new, IndexOf(s, old, 1))

Whitespace == {" ", "\n", "\t"}

Trim(s, keep) == IF keep = {} THEN "" ELSE SubSeq(s, Min(keep), Max(keep))

\* str.strip()
Strip(s) == Trim(s, {j \in 1..Len(s) : Char(s, j) \notin Whitespace})

RECURSIVE Split(_, _)
SplitAt(s, sep, j) ==
    IF j = 0 THEN <<s>>
    ELSE <<SubSeq(s, 1, j - 1)>> \o Split(SubSeq(s, j + 1, Len(s)), sep)

\* str.split(sep) for a one-character separator.
Split(s, sep) == SplitAt(s, sep, IndexOf(s, sep, 1))

LowerCase == "abcdefghijklmnopqrstuvwxyz"
UpperCase == "ABCDEFGHIJKLMNOPQRSTUVWXYZ"

UpperChar(c, j) == IF j = 0 THEN c ELSE Char(UpperCase, j)

\* str.upper()
RECURSIVE Upper(_)
Upper(s) ==
    IF s = "" THEN ""
    ELSE UpperChar(Char(s, 1), IndexOf(LowerCase, Char(s, 1), 1))
         \o Upper(Tail(s))

Digits == "0123456789"

DigitVal(c) == IndexOf(Digits, c, 1) - 1

RECURSIVE DigitsVal(_, _)
DigitsVal(s, acc) ==
    IF s = "" THEN acc
    ELSE DigitsVal(Tail(s), 10 * acc + DigitVal(Char(s, 1)))

AllDigits(s) == s # "" /\ \A j \in 1..Len(s) : DigitVal(Char(s, j)) >= 0

ParseDigits(body, sign) ==
    IF AllDigits(body) THEN [ok |-> TRUE, val |-> sign * DigitsVal(body, 0)]
    ELSE [ok |-> FALSE, val |-> 0]

ParseSigned(t) ==
    IF Char(t, 1) = "-" THEN ParseDigits(Tail(t), -1)
    ELSE IF Char(t, 1) = "+" THEN ParseDigits(Tail(t), 1)
    ELSE ParseDigits(t, 1)

\* int(s): surrounding whitespace, an optional sign, decimal digits.
\* [ok |-> FALSE] stands for ValueError.
ParseInt(s) == ParseSigned(Strip(s))

RECURSIVE NatToStr(_)
NatToStr(n) ==
    IF n < 10 THEN Char(Digits, n + 1)
    ELSE NatToStr(n \div 10) \o Char(Digits, (n % 10) + 1)

IntToStr(n) == IF n < 0 THEN "-" \o NatToStr(0 - n) ELSE NatToStr(n)

(***************************************************************************)
(* Context values.  A mapping's payload is a sequence of <<key, value>>    *)
(* pairs, a sequence's payload the sequence of its items, a callable's     *)
(* payload <<behaviour, text>>.                                            *)
(***************************************************************************)
PyStr(s) == [k |-> "str", v |-> s]
PyInt(n) == [k |-> "int", v |-> n]
PyBool(b) == [k |-> "bool", v |-> b]
PyList(items) == [k |-> "seq", v |-> items]
PyDict(pairs) == [k |-> "map", v |-> pairs]
PyFn(f, text) == [k |-> "fn", v |-> <<f, text>>]

ValueKinds == {"str", "int", "bool", "seq", "map", "fn"}

EmptyStr == PyStr("")
EmptyDict == PyDict(<<>>)

\* Python truth value of a context value (bool(x)).
Truthy(x) ==
    CASE x.k = "str" -> x.v # ""
      [] x.k = "int" -> x.v # 0
      [] x.k = "bool" -> x.v
      [] x.k = "seq" -> x.v # <<>>
      [] x.k = "map" -> x.v # <<>>
      [] OTHER -> TRUE

\* hasattr(x, 'get')
HasGet(x) == x.k = "map"

\* hasattr(x, '__iter__') in Python 2: lists and mappings, not str.
HasIter(x) == x.k \in {"seq", "map"}

\* callable(x)
Callable(x) == x.k = "fn"

MapAt(m, j, default) == IF j = 0 THEN default ELSE m.v[j][2]

\* dict.get(key, default)
MapGet(m, key, default) ==
    MapAt(m, MinOr0({j \in 1..Len(m.v) : m.v[j][1] = key}), default)

\* context[i] for an integer i: exc names the exception raised, "" when none.
ItemAt(context, n, at) ==
    IF context.k \notin {"seq", "str"}
    THEN [exc |-> "TypeError", val |-> EmptyStr]
    ELSE IF at < 1 \/ at > n THEN [exc |-> "IndexError", val |-> EmptyStr]
    ELSE [exc |-> "",
          val |-> IF context.k = "str" THEN PyStr(Char(context.v, at))
                  ELSE context.v[at]]

Indexed(context, i) ==
    IF ~i.ok THEN [exc |-> "ValueError", val |-> EmptyStr]
    ELSE IF context.k \notin {"seq", "str"} THEN ItemAt(context, 0, 0)
    ELSE ItemAt(context, Len(context.v),
                IF i.val < 0 THEN Len(context.v) + i.val + 1 ELSE i.val + 1)

\* context[int(s)]
Subscript(context, s) == Indexed(context, ParseInt(s))

\* The outcome of an exception that reaches the caller.
Raised(exc) == [k |-> "exc", v |-> exc]

\* A faulty variant: except IndexError: return ''   (other exceptions escape)
ExceptIndexError(r) ==
    IF r.exc = "IndexError" THEN [ret |-> TRUE, val |-> EmptyStr]
    ELSE IF r.exc # "" THEN [ret |-> TRUE, val |-> Raised(r.exc)]
    ELSE [ret |-> FALSE, val |-> r.val]

\* except: return ''      (every exception is caught)
Except(r) ==
    IF r.exc # "" THEN [ret |-> TRUE, val |-> EmptyStr]
    ELSE [ret |-> FALSE, val |-> r.val]

\* try: context = context[int(s)]  except: return ''
\* ret says whether _get_it returns val at once.
TryInt(context, s) == Except(Subscript(context, s))

\* One iteration of the loop "for s in stack" of _get_it.
GetStep(context, s) ==
    IF HasGet(context)
    THEN [ret |-> FALSE, val |-> MapGet(context, s, EmptyStr)]
    ELSE TryInt(context, s)

RECURSIVE Walk(_, _)
WalkOn(stack, r) == IF r.ret THEN r.val ELSE Walk(Tail(stack), r.val)

\* for s in stack: ...   return context
Walk(stack, context) ==
    IF stack = <<>> THEN context
    ELSE WalkOn(stack, GetStep(context, Head(stack)))

\* if stack[0] == '':
FromRoot(stack) == Head(stack) = ""

\* stack = stack[1:]
Segs(stack) == IF FromRoot(stack) THEN Tail(stack) ELSE stack

\* A faulty variant: the leading dot is dropped, the context stays.
StartContextStays(stack, context, self_context) == context

\* context = self.context
StartContext(stack, context, self_context) ==
    IF FromRoot(stack) THEN self_context ELSE context

\* Template._get_it(name, context), with self.context passed as self_context.
_get_it(name, context, self_context) ==
    IF name = "." THEN context
    ELSE Walk(Segs(Split(name, ".")),
              StartContext(Split(name, "."), context, self_context))

RECURSIVE JoinRepr(_, _)
RECURSIVE Repr(_)
\* repr(x), as unicode() of a list or a mapping shows its items.  A mapping's
\* items are shown in the order of its pairs; a function's address is left out.
Repr(x) ==
    CASE x.k = "str" -> "'" \o x.v \o "'"
      [] x.k = "int" -> IntToStr(x.v)
      [] x.k = "bool" -> IF x.v THEN "True" ELSE "False"
      [] x.k = "seq" -> "[" \o JoinRepr(x.v, FALSE) \o "]"
      [] x.k = "map" -> "{" \o JoinRepr(x.v, TRUE) \o "}"
      [] OTHER -> "<function>"
JoinRepr(items, pairs) ==
    IF items = <<>> THEN ""
    ELSE (IF pairs
          THEN "'" \o Head(items)[1] \o "': " \o Repr(Head(items)[2])
          ELSE Repr(Head(items)))
         \o (IF Len(items) > 1 THEN ", " ELSE "")
         \o JoinRepr(Tail(items), pairs)

\* unicode(x)
Unicode(x) == IF x.k = "str" THEN x.v ELSE Repr(x)

\* cgi.escape(s): quote is not given, so the quote characters are kept.
CgiEscape(s) ==
    Replace(Replace(Replace(s, "&", "&amp;"), "<", "&lt;"), ">", "&gt;")

\* A callable section value applied to (inner text, context).
Call(f, inner, context) ==
    CASE f.v[1] = "upper" -> Upper(inner)
      [] f.v[1] = "ident" -> inner
      [] OTHER -> f.v[2]

(***************************************************************************)
(* compile_regexps: the two patterns, as searches over a text under the    *)
(* delimiters otag and ctag.  re.escape makes both delimiters literal, so  *)
(* a quantifier written after ctag binds to its last character only.       *)
(***************************************************************************)
NoMatch ==
    [found |-> FALSE, start |-> 0, end |-> 0, type |-> "", name |-> "",
     inner |-> ""]

SectionMarkers == {"#", "^", "?"}
TagModifiers == {"=", "&", "!", ">", "{"}

\* The match once the closing tag is found at j, the inner text starting at b.
SectionFound(s, i, type, name, b, j, closing) ==
    [found |-> TRUE, start |-> i, end |-> j + Len(closing) - 1,
     type |-> type, name |-> name, inner |-> SubSeq(s, b, j - 1)]

\* ctag* is greedy: the most copies ks allows of ctag's last character.
SectionInner(s, i, type, name, b0, ks, closing) ==
    IF ks = {} THEN NoMatch
    ELSE SectionFound(s, i, type, name, b0 + Max(ks),
                      IndexOf(s, closing, b0 + Max(ks) + 1), closing)

\* ctag* (.+?) otag / \2 ctag   after the name, which ends before q.
SectionClose(s, i, type, name, b0, run, closing) ==
    SectionInner(s, i, type, name, b0,
                 {k \in 0..run : IndexOf(s, closing, b0 + k + 1) # 0}, closing)

\* The section pattern tried at position i with a name of n characters:
\* otag (#|^|?) (.+?) ctag* (.+?) otag / \2 ctag   (re.S: . matches newline)
SectionAt(s, i, n, otag, ctag) ==
    LET ns == i + Len(otag) + 1
        b0 == ns + n + Len(ctag) - 1
    IN  IF ns + n - 1 <= Len(s)
           /\ StartsWith(s, ns + n, SubSeq(ctag, 1, Len(ctag) - 1))
        THEN SectionClose(s, i, Char(s, ns - 1), SubSeq(s, ns, ns + n - 1), b0,
                          RunLen(s, b0, Char(ctag, Len(ctag))),
                          otag \o "/" \o SubSeq(s, ns, ns + n - 1) \o ctag)
        ELSE NoMatch

Shortest(s, i, ok, otag, ctag) ==
    IF ok = {} THEN NoMatch ELSE SectionAt(s, i, Min(ok), otag, ctag)

\* The section pattern tried at position i: the shortest name that matches.
SectionFrom(s, i, otag, ctag) ==
    IF StartsWith(s, i, otag) /\ Char(s, i + Len(otag)) \in SectionMarkers
    THEN Shortest(s, i,
                  {n \in 1..(Len(s) - i - Len(otag)) :
                      SectionAt(s, i, n, otag, ctag).found},
                  otag, ctag)
    ELSE NoMatch

LeftmostSection(s, at, otag, ctag) ==
    IF at = 0 THEN NoMatch ELSE SectionFrom(s, at, otag, ctag)

\* section_re.search(s): the leftmost match.
SectionSearch(s, otag, ctag) ==
    LeftmostSection(
        s, MinOr0({i \in 1..Len(s) : SectionFrom(s, i, otag, ctag).found}),
        otag, ctag)

\* ctag+ is greedy: the tag ends after every copy of ctag's last character.
TagFound(s, i, ns, type, ctag, j) ==
    IF ns <= Len(s) /\ j # 0 /\ ~Contains(SubSeq(s, ns, j - 1), "\n")
    THEN [found |-> TRUE, start |-> i,
          end |-> j + Len(ctag) - 1
                  + RunLen(s, j + Len(ctag), Char(ctag, Len(ctag))),
          type |-> type, name |-> SubSeq(s, ns, j - 1), inner |-> ""]
    ELSE NoMatch

\* The tag pattern tried at position i with the name starting at ns:
\* (.+?) ctag+   (. does not match newline)
TagBody(s, i, ns, type, ctag) ==
    TagFound(s, i, ns, type, ctag, IndexOf(s, ctag, ns + 1))

WithModifier(s, i, p, with, ctag) ==
    IF Char(s, p) \in TagModifiers /\ with.found THEN with
    ELSE TagBody(s, i, p, "", ctag)

\* The tag pattern tried at position i:  otag (=|&|!|>|\{)? (.+?) ctag+
\* The optional modifier is tried first, then the match without it.
TagFrom(s, i, otag, ctag) ==
    IF ~StartsWith(s, i, otag) THEN NoMatch
    ELSE WithModifier(s, i, i + Len(otag),
                      TagBody(s, i, i + Len(otag) + 1,
                              Char(s, i + Len(otag)), ctag),
                      ctag)

LeftmostTag(s, at, otag, ctag) ==
    IF at = 0 THEN NoMatch ELSE TagFrom(s, at, otag, ctag)

\* tag_re.search(s): the leftmost match.
TagSearch(s, otag, ctag) ==
    LeftmostTag(s, MinOr0({i \in 1..Len(s) : TagFrom(s, i, otag, ctag).found}),
                otag, ctag)

(***************************************************************************)
(* The partial collaborator (pystache.view.View), which is not part of the *)
(* source file: a table from partial name to template text.                *)
(***************************************************************************)
Partials ==
    PyDict(<< <<"p", PyStr("P{{a}}")>>, <<"q", PyStr("{{=<% %>}}<%a%>")>> >>)

\* loadPartial(name); the collaborator fails for a name it does not hold.
HasPartial(name) == \E j \in 1..Len(Partials.v) : Partials.v[j][1] = name
PartialText(name) == MapGet(Partials, name, EmptyStr).v

(***************************************************************************)
(* The renderer's state.                                                   *)
(***************************************************************************)
VARIABLES
    template0,  \* self.template
    root,       \* self.context
    otag,       \* self.otag
    ctag,       \* self.ctag: together with otag, the compiled patterns
    stack,      \* the active calls of Template.render, innermost last
    status,     \* "running", "done" or "error"
    result,     \* what the top-level render returned
    err,        \* the exception that ended the render
    lookup      \* a call of _get_it taken alone: its arguments and locals

vars == <<template0, root, otag, ctag, stack, status, result, err, lookup>>

\* The defaults of the class attributes otag and ctag.
DefaultOtag == "{{"
DefaultCtag == "}}"

\* A call of Template.render(template, context): arg is the context argument,
\* context the local after "context = context or self.context".  call says
\* who made the call; entry are the delimiters that were in effect when the
\* caller began the expansion the call belongs to.
\* match and it are the locals of the loop the call is in.
RenderCall(template, arg, self_context, call, o, c) ==
    [pc |-> "sections", template |-> template,
     context |-> IF Truthy(arg) THEN arg ELSE self_context,
     arg |-> arg, call |-> call, entry |-> <<o, c>>,
     match |-> NoMatch, it |-> EmptyStr, items |-> <<>>, insides |-> ""]

Depth == Len(stack)
Top == stack[Depth]
Running == status = "running" /\ Depth >= 1
At(pc) == Running /\ Top.pc = pc
SetTop(f) == [stack EXCEPT ![Depth] = f]
Fits(t) == Len(t) <= MaxLen

\* group(0) of a call's match.
MatchText(f) == SubSeq(f.template, f.match.start, f.match.end)

\* match = self.section_re.search(template); if match is None: break
\* section_name = section_name.strip(); it = self._get_it(section_name, context)
SectionSearched(f, m, self_context) ==
    IF m.found
    THEN [f EXCEPT !.pc = "expand", !.match = m,
                   !.it = _get_it(Strip(m.name), f.context, self_context)]
    ELSE [f EXCEPT !.pc = "tags", !.match = NoMatch]

\* The head of the loop of render_sections; when it breaks, render goes on
\* to render_tags.
SearchSection ==
    /\ At("sections")
    /\ stack' = SetTop(SectionSearched(
                    Top, SectionSearch(Top.template, otag, ctag), root))
    /\ UNCHANGED <<lookup, template0, root, otag, ctag, status, result, err>>

\* A faulty variant: template.replace(inner, replacer).
ReplacedInner(f, replacer) == Replace(f.template, f.match.inner, replacer)

\* template = template.replace(section, replacer)
Replaced(f, replacer) == Replace(f.template, MatchText(f), replacer)

Rewrite(t, pc) ==
    /\ Fits(t)
    /\ stack' = SetTop([Top EXCEPT !.template = t, !.pc = pc])
    /\ UNCHANGED <<lookup, template0, root, status, result, err>>

Expand(replacer) ==
    /\ Rewrite(Replaced(Top, replacer), "sections")
    /\ UNCHANGED <<otag, ctag>>

\* if it and section_type == '#': if callable(it)
SectionCallable ==
    /\ At("expand")
    /\ Truthy(Top.it) /\ Top.match.type = "#" /\ Callable(Top.it)
    /\ Expand(Call(Top.it, Top.match.inner, Top.context))

\* The call self.render(inner, item) made by the call below it.
Nested(items, call) ==
    /\ Depth < MaxDepth
    /\ stack' = Append(
          SetTop([Top EXCEPT !.pc = "wait_section", !.items = Tail(items),
                             !.insides = ""]),
          RenderCall(Top.match.inner, Head(items), root, call, otag, ctag))
    /\ UNCHANGED <<lookup, template0, root, otag, ctag, status, result, err>>

\* elif hasattr(it, '__iter__') and not hasattr(it, 'get'): the first item
SectionIterate ==
    /\ At("expand")
    /\ Truthy(Top.it) /\ Top.match.type = "#" /\ ~Callable(Top.it)
    /\ HasIter(Top.it) /\ ~HasGet(Top.it)
    /\ Nested(Top.it.v, "item")

\* else: replacer = self.render(inner, it)
SectionScalar ==
    /\ At("expand")
    /\ Truthy(Top.it) /\ Top.match.type = "#" /\ ~Callable(Top.it)
    /\ ~(HasIter(Top.it) /\ ~HasGet(Top.it))
    /\ Nested(<<Top.it>>, "scalar")

\* elif not it and section_type == '^': replacer = inner
SectionInverted ==
    /\ At("expand")
    /\ ~Truthy(Top.it) /\ Top.match.type = "^"
    /\ Expand(Top.match.inner)

\* elif it and section_type == '?': replacer = inner
SectionAssert ==
    /\ At("expand")
    /\ Truthy(Top.it) /\ Top.match.type = "?"
    /\ Expand(Top.match.inner)

\* No branch is taken: replacer stays ''.
SectionSkip ==
    /\ At("expand")
    /\ IF Truthy(Top.it) THEN Top.match.type = "^"
       ELSE Top.match.type \in {"#", "?"}
    /\ Expand("")

\* A faulty variant: one substitution only, the result is not searched again.
TagSearchedOnce(f, m) ==
    IF m.found /\ ~f.match.found THEN [f EXCEPT !.pc = "dispatch", !.match = m]
    ELSE [f EXCEPT !.pc = "return", !.match = NoMatch]

\* match = self.tag_re.search(template); if match is None: break
TagSearched(f, m) ==
    IF m.found THEN [f EXCEPT !.pc = "dispatch", !.match = m]
    ELSE [f EXCEPT !.pc = "return", !.match = NoMatch]

\* The head of the loop of render_tags.
SearchTag ==
    /\ At("tags")
    /\ stack' = SetTop(TagSearched(Top, TagSearch(Top.template, otag, ctag)))
    /\ UNCHANGED <<lookup, template0, root, otag, ctag, status, result, err>>

\* tag_name = tag_name.strip()
TagName == Strip(Top.match.name)

\* template = template.replace(tag, replacement)
Substitute(replacement) == Rewrite(Replaced(Top, replacement), "tags")

\* if not raw and raw is not 0: return ''; return cgi.escape(unicode(raw))
Escaped(raw) ==
    IF ~Truthy(raw) /\ ~(raw.k = "int" /\ raw.v = 0) THEN ""
    ELSE CgiEscape(Unicode(raw))

\* Template.render_tag
render_tag(tag_name, context, self_context) ==
    Escaped(_get_it(tag_name, context, self_context))

\* Template.render_unescaped
render_unescaped(tag_name, context, self_context) ==
    Unicode(_get_it(tag_name, context, self_context))

\* modifiers[None]
TagInterpolate ==
    /\ At("dispatch") /\ Top.match.type = ""
    /\ Substitute(render_tag(TagName, Top.context, root))
    /\ UNCHANGED <<otag, ctag>>

\* modifiers['!']: render_comment
TagComment ==
    /\ At("dispatch") /\ Top.match.type = "!"
    /\ Substitute("")
    /\ UNCHANGED <<otag, ctag>>

\* modifiers['&']
TagUnescaped ==
    /\ At("dispatch") /\ Top.match.type = "&"
    /\ Substitute(render_unescaped(TagName, Top.context, root))
    /\ UNCHANGED <<otag, ctag>>

\* self.otag, self.ctag = parts; self.compile_regexps(); return ''
SetDelimiters(parts) ==
    /\ Len(parts) = 2
    /\ otag' = parts[1]
    /\ ctag' = parts[2]
    /\ Substitute("")

\* modifiers['=']: render_delimiter
TagDelimiter ==
    /\ At("dispatch") /\ Top.match.type = "="
    /\ SetDelimiters(Split(TagName, " "))

Fail(exc) ==
    /\ status' = "error"
    /\ err' = exc
    /\ UNCHANGED <<lookup, template0, root, otag, ctag, stack, result>>

\* render_delimiter when the tag body is not two space-separated parts.
TagDelimiterFails ==
    /\ At("dispatch") /\ Top.match.type = "="
    /\ Len(Split(TagName, " ")) # 2
    /\ Fail("ValueError")

\* The modifiers that have a handler registered with @modifier.
Registered == {"", "!", "&", ">", "="}

\* func = modifiers[tag_type] for a modifier the table does not hold.
TagNoHandler ==
    /\ At("dispatch") /\ Top.match.type \notin Registered
    /\ Fail("KeyError")

\* The partial's text rendered by a pipeline of its own, with the default
\* delimiters, in the current context.
Included(text) ==
    /\ Depth < MaxDepth
    /\ stack' = Append(
          SetTop([Top EXCEPT !.pc = "wait_partial"]),
          RenderCall(text, Top.context, root, "partial", otag, ctag))
    /\ otag' = DefaultOtag
    /\ ctag' = DefaultCtag
    /\ UNCHANGED <<lookup, template0, root, status, result, err>>

\* modifiers['>']: render_partial
TagPartial ==
    /\ At("dispatch") /\ Top.match.type = ">"
    /\ HasPartial(TagName)
    /\ Included(PartialText(TagName))

\* render_partial for a name the collaborator has no text for.
TagPartialFails ==
    /\ At("dispatch") /\ Top.match.type = ">"
    /\ ~HasPartial(TagName)
    /\ Fail("IOError")

\* render_tags found no tag: render returns Top.template to its caller.
Caller == stack[Depth - 1]
Below == SubSeq(stack, 1, Depth - 2)

\* The top-level render returns (encoding is None).
ReturnResult ==
    /\ At("return") /\ Depth = 1
    /\ status' = "done"
    /\ result' = Top.template
    /\ stack' = <<>>
    /\ UNCHANGED <<lookup, template0, root, otag, ctag, err>>

\* insides = [self.render(inner, item) for item in it]: the next item.
ReturnItem ==
    /\ At("return") /\ Depth > 1
    /\ Caller.pc = "wait_section" /\ Caller.items # <<>>
    /\ Fits(Caller.insides \o Top.template)
    /\ stack' = Below \o
          <<[Caller EXCEPT !.items = Tail(Caller.items),
                           !.insides = Caller.insides \o Top.template],
            RenderCall(Caller.match.inner, Head(Caller.items), root, "item",
                       Top.entry[1], Top.entry[2])>>
    /\ UNCHANGED <<lookup, template0, root, otag, ctag, status, result, err>>

\* The caller goes on with its template rewritten.
Resume(t, pc, insides) ==
    /\ Fits(t)
    /\ stack' = Below \o
          <<[Caller EXCEPT !.pc = pc, !.template = t, !.insides = insides]>>
    /\ UNCHANGED <<lookup, template0, root, status, result, err>>

\* The last nested render of a section returns: replacer = ''.join(insides)
\* and template = template.replace(section, replacer).
ReturnSection ==
    /\ At("return") /\ Depth > 1
    /\ Caller.pc = "wait_section" /\ Caller.items = <<>>
    /\ Resume(Replaced(Caller, Caller.insides \o Top.template), "sections",
              Caller.insides \o Top.template)
    /\ UNCHANGED <<otag, ctag>>

\* view.render returns: the partial's pipeline ends, the tag is replaced.
ReturnPartial ==
    /\ At("return") /\ Depth > 1
    /\ Caller.pc = "wait_partial"
    /\ Resume(Replaced(Caller, Top.template), "tags", "")
    /\ otag' = Top.entry[1]
    /\ ctag' = Top.entry[2]

\* No call of _get_it is being followed on its own.
NoLookup ==
    [pc |-> "idle", name |-> "", context |-> EmptyStr, given |-> EmptyStr,
     stack |-> <<>>, val |-> EmptyStr]

(***************************************************************************)
(* The templates and contexts rendered: render(template, context).         *)
(***************************************************************************)
Pair(key, value) == << <<key, value>> >>
Dict1(key, value) == PyDict(Pair(key, value))

People == PyList(<<Dict1("name", PyStr("Bob")), Dict1("name", PyStr("Tom"))>>)

\* One section block over f with inner text X.
SectionTemplate(marker, X) == "{{" \o marker \o "f}}" \o X \o "{{/f}}"

InnerTexts == {"X", "a b", "}a", "<i>"}

SectionValues ==
    {PyBool(TRUE), PyBool(FALSE), PyStr(""), PyStr("s"), PyInt(0), PyInt(1),
     PyList(<<>>), PyList(<<PyInt(1), PyInt(2)>>), EmptyDict,
     Dict1("a", PyInt(1)), PyFn("ident", ""), PyFn("upper", "")}

SectionCases ==
    {<<SectionTemplate(m, X), Dict1("f", v)>> :
        m \in SectionMarkers, X \in InnerTexts, v \in SectionValues}
    \cup {<<SectionTemplate(m, X), Dict1("g", PyInt(1))>> :
        m \in SectionMarkers, X \in InnerTexts}

EscapeTexts == {"<>&\"", "a<b", "&amp;", "x", "'", "Tom & \"Bob\""}

EscapeCases ==
    {<<t, Dict1("t", PyStr(x))>> : t \in {"{{t}}", "{{&t}}"}, x \in EscapeTexts}

Items ==
    {People.v, <<PyInt(1), PyInt(2)>>, <<PyInt(0), PyInt(1)>>,
     <<PyStr("a"), PyStr("")>>, <<EmptyDict>>, <<PyBool(FALSE)>>,
     <<PyStr("a"), PyStr("b"), PyStr("c")>>}

IterationTemplates == {"{{#items}}{{.}};{{/items}}", "{{#items}}{{name}};{{/items}}"}

IterationCases ==
    {<<t, PyDict(Pair("items", PyList(it)) \o Pair("name", PyStr("R")))>> :
        t \in IterationTemplates, it \in Items}

DelimiterPrefixes == {"", "a ", "{{x}}", "{{y}}", "{{&x}}", "{{x}} {{x}}"}

DelimiterContext == PyDict(Pair("x", PyStr("v")) \o Pair("y", PyStr("w")))

DelimiterCases ==
    {<<p \o "{{=[[ ]]}}[[x]]{{x}}", DelimiterContext>> : p \in DelimiterPrefixes}

Base == PyDict(Pair("a", PyInt(1)) \o Pair("cur", Dict1("a", PyInt(2))))

Nest ==
    PyDict(Pair("a", PyInt(1))
           \o Pair("cur", PyDict(Pair("a", PyInt(2))
                                 \o Pair("in", Dict1("a", PyInt(3)))))
           \o Pair("list", PyList(<<PyStr("a"), PyStr("b"), PyStr("c")>>))
           \o Pair("rows", PyList(<<Dict1("a", PyInt(4)), PyInt(0)>>)))

PathCases ==
    {<<"{{a}} {{cur.a}} {{#cur}}{{a}} {{.a}} {{.cur.a}}{{/cur}}", Base>>,
     <<"{{#cur}}{{#in}}{{a}}{{.a}}{{.cur.a}}{{/in}}{{/cur}}", Nest>>,
     <<"{{#rows}}{{a}}{{.a}}{{.cur.in.a}};{{/rows}}", Nest>>,
     <<"{{#cur}}{{#.rows}}{{.a}}{{a}}{{/.rows}}{{/cur}}", Nest>>,
     <<"{{list.0}} {{list.1}} {{list.-1}} {{list.3}} {{list.x}}", Nest>>,
     <<"{{?cur}}{{a}}{{/cur}}{{^zz}}{{a}}{{/zz}}", Nest>>}

Reflect == PyDict(Pair("a", PyStr("{{b}}")) \o Pair("b", PyStr("B"))
                  \o Pair("c", PyStr("<{{&a}}>")) \o Pair("n", PyInt(0)))

RescanCases ==
    {<<t, Reflect>> : t \in {"{{a}}", "{{&a}}", "{{c}}", "{{a}}{{a}}", "{{n}}{{zz}}"}}

Loops ==
    PyDict(Pair("f", PyFn("const", "{{#f}}X{{/f}}"))
           \o Pair("g", PyFn("const", "{{^zz}}Y{{/zz}}"))
           \o Pair("t", PyBool(TRUE))
           \o Pair("v", PyStr("{{.v}}"))
           \o Pair("w", PyStr("x{{.w}}"))
           \o Pair("up", PyFn("upper", ""))
           \o Pair("world", PyStr("Earth")) \o Pair("WORLD", PyStr("Mars")))

LoopCases ==
    {<<t, Loops>> : t \in
        {"{{#f}}X{{/f}}", "{{#g}}X{{/g}}", "{{#t}}{{.v}}{{/t}}",
         "{{#t}}{{&.w}}{{/t}}", "{{#up}}Hello {{world}}{{/up}}",
         "{{#b}}y{{{^a}}{{{/a}}/b}}", "{{^a}}{{#t}}X{{/a}}Y{{/t}}"}}

Flags ==
    PyDict(Pair("s", PyBool(TRUE)) \o Pair("x", PyStr("v"))
           \o Pair("a", PyStr("<b>")))

Rows ==
    PyDict(Pair("l", PyList(<<Dict1("n", PyInt(1)), Dict1("n", PyInt(2))>>))
           \o Pair("x", PyStr("v")))

ScopeCases ==
    {<<t, Flags>> : t \in
        {"{{#s}}{{=[[ ]]}}{{/s}}{{x}}[[x]]", "{{#s}}a{{/s}}{{x}}[[x]]",
         "{{#s}}{{=[[ ]]}}{{/s}}{{#s}}b{{/s}}", "{{>q}}{{a}}<%a%>",
         "{{#s}}{{=[[ ]]}}[[x]]{{/s}}[[#s]]b[[/s]]"}}
    \cup {<<t, Rows>> : t \in
        {"{{#l}}{{=[[ ]]}}[[n]];{{/l}}{{x}}", "{{#l}}{{n}};{{/l}}{{x}}"}}

DispatchCases ==
    {<<t, Flags>> : t \in
        {"{{{a}}}", "{{&a}}", "{{a}}", "{{!a}}", "{{>p}}", "{{>zz}}",
         "{{=<% %>}}<%a%>", "{{=x}}", "{{ = | | }}", "sanity", "{{{x}}} {{a}}"}}

Inputs ==
    SectionCases \cup EscapeCases \cup IterationCases \cup DelimiterCases
    \cup PathCases \cup RescanCases \cup LoopCases \cup ScopeCases
    \cup DispatchCases

(***************************************************************************)
(* render(template, context): Template(template, context).render().        *)
(***************************************************************************)
Init ==
    \E inp \in Inputs :
        /\ template0 = inp[1]
        /\ root = (IF Truthy(inp[2]) THEN inp[2] ELSE EmptyDict)
        /\ otag = DefaultOtag
        /\ ctag = DefaultCtag
        /\ stack = <<RenderCall(inp[1], root, root, "top", DefaultOtag,
                                 DefaultCtag)>>
        /\ status = "running"
        /\ result = ""
        /\ err = ""
        /\ lookup = NoLookup

Next ==
    \/ SearchSection
    \/ SectionCallable
    \/ SectionIterate
    \/ SectionScalar
    \/ SectionInverted
    \/ SectionAssert
    \/ SectionSkip
    \/ SearchTag
    \/ TagInterpolate
    \/ TagComment
    \/ TagUnescaped
    \/ TagDelimiter
    \/ TagDelimiterFails
    \/ TagNoHandler
    \/ TagPartial
    \/ TagPartialFails
    \/ ReturnResult
    \/ ReturnItem
    \/ ReturnSection
    \/ ReturnPartial

Spec == Init /\ [][Next]_vars

(***************************************************************************)
(* _get_it taken alone: one call, followed statement by statement, for     *)
(* every name of PathNames in every context of Contexts.                   *)
(***************************************************************************)
Tree ==
    PyDict(Pair("a", PyDict(Pair("b", Dict1("c", PyInt(1)))
                            \o Pair("e", PyStr(""))))
           \o Pair("l", PyList(<<PyStr("p"), PyStr(""), Dict1("b", PyInt(7))>>))
           \o Pair("s", PyStr("xyz"))
           \o Pair("n", PyInt(5))
           \o Pair("f", PyFn("ident", ""))
           \o Pair("e", PyStr(""))
           \o Pair("0", PyStr("zero")))

Contexts ==
    {Tree, Base, EmptyDict, EmptyStr, PyStr("xyz"), PyInt(0), PyInt(5),
     PyBool(TRUE), PyFn("upper", ""), PyList(<<>>),
     PyList(<<PyStr("p"), Tree, PyInt(0)>>)}

Roots == {Tree, Base, Dict1("x", PyStr("v"))}

Segments == {"a", "b", "e", "l", "s", "n", "f", "0", "1", "2", "-1", "-4", "x", " 1", "+2", ""}

PathNames ==
    {".", "", "a", ".a", "a.b", "a.b.c", ".a.b.c", "a.e", "a.e.0", "e", "e.x",
     "l", "l.0", "l.1", "l.-1", "l.3", "l.-4", "l.x", "l.2.b", "l.1.0",
     "s.1", "s.-1", "s.9", "s.1.0", "n.0", "f.0", "0", "1", "-1", "2.a.b",
     " 1", "+2", "x", "x.y", ".x", "cur.a", ".cur.a", "..a", "a.", "1.l.0"}

InitGet ==
    \E name \in PathNames, context \in Contexts, r \in Roots :
        /\ lookup = [pc |-> "call", name |-> name, context |-> context,
                     given |-> context, stack |-> <<>>, val |-> EmptyStr]
        /\ root = r
        /\ template0 = ""
        /\ otag = DefaultOtag
        /\ ctag = DefaultCtag
        /\ stack = <<>>
        /\ status = "idle"
        /\ result = ""
        /\ err = ""

Looked(l) ==
    /\ lookup' = l
    /\ UNCHANGED <<template0, root, otag, ctag, stack, status, result, err>>

Return(val) == Looked([lookup EXCEPT !.pc = "returned", !.val = val])

\* if name == '.': return context
GetDot ==
    /\ lookup.pc = "call" /\ lookup.name = "."
    /\ Return(lookup.context)

\* stack = name.split('.'); if stack[0] == '': ... context = self.context
Started(l, segs, self_context) ==
    [l EXCEPT !.pc = "loop", !.stack = Segs(segs),
              !.context = StartContext(segs, l.context, self_context)]

GetSplit ==
    /\ lookup.pc = "call" /\ lookup.name # "."
    /\ Looked(Started(lookup, Split(lookup.name, "."), root))

\* An iteration of the loop: context is rebound, or _get_it returns ''.
Stepped(l, r) ==
    IF r.ret THEN [l EXCEPT !.pc = "returned", !.val = r.val]
    ELSE [l EXCEPT !.stack = Tail(l.stack), !.context = r.val]

\* if hasattr(context, 'get'): context = context.get(s, '')
GetMapping ==
    /\ lookup.pc = "loop" /\ lookup.stack # <<>> /\ HasGet(lookup.context)
    /\ Looked(Stepped(lookup, GetStep(lookup.context, Head(lookup.stack))))

\* else: try: context = context[int(s)]  except: return ''
GetIndex ==
    /\ lookup.pc = "loop" /\ lookup.stack # <<>> /\ ~HasGet(lookup.context)
    /\ Looked(Stepped(lookup, GetStep(lookup.context, Head(lookup.stack))))

\* return context
GetReturn ==
    /\ lookup.pc = "loop" /\ lookup.stack = <<>>
    /\ Return(lookup.context)

NextGet ==
    \/ GetDot
    \/ GetSplit
    \/ GetMapping
    \/ GetIndex
    \/ GetReturn

SpecGet == InitGet /\ [][NextGet]_vars

(***************************************************************************)
(* Properties of sections.                                                 *)
(***************************************************************************)
\* What a block over a value v with inner text X is to render: the inverted
\* block renders X exactly when v is falsy, the assertion block exactly when
\* v is truthy, the regular block nothing when v is falsy and X itself when
\* v is True.  known says whether the statement fixes the result.
SectionRenders(marker, X, v) ==
    CASE marker = "^" -> [known |-> TRUE, text |-> IF Truthy(v) THEN "" ELSE X]
      [] marker = "?" -> [known |-> TRUE, text |-> IF Truthy(v) THEN X ELSE ""]
      [] OTHER -> [known |-> ~Truthy(v) \/ v = PyBool(TRUE),
                   text |-> IF Truthy(v) THEN X ELSE ""]

AsStated(r) == r.known => result = r.text

Rendered(template, context) ==
    status = "done" /\ template0 = template /\ root = context

\* C1: for every value v and every inner text X without tags, {{^f}}X{{/f}}
\* renders X exactly when v is falsy, {{?f}}X{{/f}} renders X exactly when v
\* is truthy, and {{#f}}X{{/f}} renders nothing when v is falsy (an undefined
\* f counts as falsy).
C1_SectionTruthiness ==
    \A m \in SectionMarkers, X \in InnerTexts :
        /\ \A v \in SectionValues :
              Rendered(SectionTemplate(m, X), Dict1("f", v))
                  => AsStated(SectionRenders(m, X, v))
        /\ Rendered(SectionTemplate(m, X), Dict1("g", PyInt(1)))
              => AsStated(SectionRenders(m, X, EmptyStr))

(***************************************************************************)
(* Properties of escaping.                                                 *)
(***************************************************************************)
Entities == {"&amp;", "&lt;", "&gt;", "&quot;", "&#"}

\* No raw <, > or quote character, and every & begins a character reference.
HtmlSafe(s) ==
    \A i \in 1..Len(s) :
        /\ Char(s, i) \notin {"<", ">", "\"", "'"}
        /\ Char(s, i) = "&" => \E e \in Entities : StartsWith(s, i, e)

\* C2: the output of {{t}} holds none of the raw characters <, >, quote and
\* no unescaped &, whatever the text of t; the output of {{&t}} is the text
\* of t itself.
C2_DefaultTagEscapesHtml ==
    \A x \in EscapeTexts :
        /\ Rendered("{{t}}", Dict1("t", PyStr(x))) => HtmlSafe(result)
        /\ Rendered("{{&t}}", Dict1("t", PyStr(x))) => result = x

(***************************************************************************)
(* Properties of iteration.                                                *)
(***************************************************************************)
\* C3: every rendering of an inner template for an item of an iterable uses
\* the item itself as its context, whatever the item's value.
C3_ItemIsTheContext ==
    \A i \in 1..Depth :
        stack[i].call = "item" => stack[i].context = stack[i].arg

(***************************************************************************)
(* Properties of the delimiters.                                           *)
(***************************************************************************)
EndsWith(s, suffix) ==
    Len(s) >= Len(suffix) /\ StartsWith(s, Len(s) - Len(suffix) + 1, suffix)

\* C4: after {{=[[ ]]}} the tag [[x]] is rendered and the text {{x}} that
\* follows it stays as it is, whatever precedes the delimiter tag.
C4_OldDelimitersStayVerbatim ==
    \A p \in DelimiterPrefixes :
        Rendered(p \o "{{=[[ ]]}}[[x]]{{x}}", DelimiterContext)
            => EndsWith(result, "v{{x}}")

\* C5: rendering never fails for want of a handler: every tag that the tag
\* pattern matches, the one of modifier { included, has one.
C5_EveryMatchedTagIsHandled == ~(status = "error" /\ err = "KeyError")

\* C9: a render of a section's inner text returns with the delimiters that
\* the enclosing render had when it began to expand the section, and
\* {{#s}}{{=[[ ]]}}{{/s}}{{x}}[[x]] so renders {{x}} and leaves [[x]].
C9_SectionKeepsDelimiters ==
    /\ (Running /\ Top.pc = "return" /\ Top.call \in {"item", "scalar"})
          => <<otag, ctag>> = Top.entry
    /\ Rendered("{{#s}}{{=[[ ]]}}{{/s}}{{x}}[[x]]", Flags) => result = "v[[x]]"

(***************************************************************************)
(* Properties of _get_it.                                                  *)
(***************************************************************************)
HasKey(context, key) == \E j \in 1..Len(context.v) : context.v[j][1] = key

\* context[int(s)] fails: s is no integer, context cannot be indexed, or the
\* index is out of range.
Fails(context, s) == Subscript(context, s).exc # ""

\* C6: _get_it returns a value for every name and context and never raises;
\* a key missing from a mapping gives ''; a segment that is no integer, an
\* index out of range or a context that cannot be indexed makes the whole
\* call return ''; and when a path resolves to '' so does every longer path
\* that it begins.
C6_GetItIsTotal ==
    /\ lookup.pc = "returned" =>
          /\ lookup.val.k \in ValueKinds
          /\ lookup.val = _get_it(lookup.name, lookup.given, root)
    /\ (/\ lookup.pc = "loop" /\ lookup.stack # <<>>
        /\ HasGet(lookup.context)
        /\ ~HasKey(lookup.context, Head(lookup.stack)))
          => /\ GetStep(lookup.context, Head(lookup.stack)).val = EmptyStr
             /\ _get_it(lookup.name, lookup.given, root) = EmptyStr
    /\ (/\ lookup.pc = "loop" /\ lookup.stack # <<>>
        /\ ~HasGet(lookup.context)
        /\ Fails(lookup.context, Head(lookup.stack)))
          => _get_it(lookup.name, lookup.given, root) = EmptyStr
    /\ (/\ lookup.pc = "returned"
        /\ lookup.val = EmptyStr
        /\ lookup.name \notin {".", ""})
          => \A s \in Segments :
                _get_it(lookup.name \o "." \o s, lookup.given, root) = EmptyStr

\* An index out of range has been caught and '' returned.
C6_Witness ==
    /\ lookup.pc = "returned" /\ lookup.name = "l.3" /\ lookup.given = Tree
    /\ lookup.val = EmptyStr /\ lookup.stack = <<"3">>

RelativeNames == {"a", "cur.a", "cur.in.a", "list.0", "rows.0.a", "x", "zz.a"}

\* C7: in every render call, however deeply nested, a name with a leading
\* dot resolves as the rest of the name does from the root context, which is
\* the context given to render(); a name without one resolves against the
\* call's own context alone; and the nested example gives "1 2 2 1 2".
C7_RootPrefixAtEveryDepth ==
    /\ \E inp \in Inputs : template0 = inp[1] /\ root = inp[2]
    /\ \A i \in 1..Depth, n \in RelativeNames :
          /\ _get_it("." \o n, stack[i].context, root) = _get_it(n, root, root)
          /\ _get_it(n, stack[i].context, root)
                = _get_it(n, stack[i].context, EmptyDict)
    /\ Rendered("{{a}} {{cur.a}} {{#cur}}{{a}} {{.a}} {{.cur.a}}{{/cur}}", Base)
          => result = "1 2 2 1 2"
    /\ Rendered("{{#cur}}{{#in}}{{a}}{{.a}}{{.cur.a}}{{/in}}{{/cur}}", Nest)
          => result = "312"

\* The tag {{.a}} is about to be rendered two sections deep, in a context
\* that is not the root.
C7_Witness ==
    /\ Running /\ Depth = 3 /\ Top.pc = "dispatch"
    /\ Top.match.name = ".a" /\ Top.context = Dict1("a", PyInt(3))
    /\ root = Nest

(***************************************************************************)
(* Properties of the section loop.                                         *)
(***************************************************************************)
\* Number of positions of t at which a complete block begins.
Blocks(t) ==
    Cardinality({i \in 1..Len(t) : SectionFrom(t, i, otag, ctag).found})

\* An iteration of the loop of render_sections ends with this step: the
\* matched block was replaced at once, or the last nested render returned.
ExpandsInPlace == Running /\ Top.pc = "expand" /\ Len(stack') = Depth
LastReturn ==
    /\ Running /\ Top.pc = "return" /\ Depth > 1
    /\ Caller.pc = "wait_section" /\ Caller.items = <<>>
    /\ Len(stack') = Depth - 1

\* C8 as stated: every iteration of the loop of render_sections leaves
\* strictly fewer complete blocks in the template than it found, for every
\* value of the section, callables included.
C8_EveryIterationRemovesABlock ==
    [][/\ ExpandsInPlace =>
             Blocks(stack'[Depth].template) < Blocks(Top.template)
       /\ LastReturn =>
             Blocks(stack'[Depth - 1].template) < Blocks(Caller.template)]_vars

\* C8: an iteration that expands an inverted block, an assertion block or a
\* regular block of a falsy value leaves a strictly shorter template; no
\* such thing holds of a regular block of a truthy value, whose replacement
\* is whatever a callable or a nested render returns.
C8_PlainExpansionShortens ==
    [][(/\ Running /\ Top.pc = "expand"
        /\ ~(Truthy(Top.it) /\ Top.match.type = "#"))
          => /\ Len(stack') = Depth
             /\ stack'[Depth].pc = "sections"
             /\ Len(stack'[Depth].template) < Len(Top.template)]_vars

\* An inverted block of a falsy value has been expanded to its inner text.
C8_Witness ==
    /\ Running /\ Depth = 1 /\ Top.pc = "sections"
    /\ Top.match.found /\ Top.match.type = "^" /\ ~Truthy(Top.it)
    /\ template0 = "{{^f}}X{{/f}}" /\ Top.template = "X"

(***************************************************************************)
(* Properties of the tag loop.                                             *)
(***************************************************************************)
\* s holds a tag under the delimiters o and c: o, at least one character
\* that is no line break, then c.
HasTagSpan(s, o, c) ==
    \E i \in 1..Len(s) :
        /\ StartsWith(s, i, o)
        /\ \E j \in (i + Len(o) + 1)..Len(s) :
              /\ StartsWith(s, j, c)
              /\ \A k \in (i + Len(o))..(j - 1) : Char(s, k) # "\n"

\* C10: text substituted for a tag is scanned again, so that a value holding
\* a tag has that tag resolved against the same context, and what
\* render_tags returns holds no tag under the delimiters then in effect.
C10_NoTagSurvives ==
    /\ (Running /\ Top.pc = "return") => ~HasTagSpan(Top.template, otag, ctag)
    /\ status = "done" => ~HasTagSpan(result, otag, ctag)
    /\ Rendered("{{a}}", Reflect) => result = "B"
    /\ Rendered("{{&a}}", Reflect) => result = "B"
    /\ Rendered("{{a}}{{a}}", Reflect) => result = "BB"

\* {{a}}, whose value is the text {{b}}, has been rendered as the value of b.
C10_Witness == Rendered("{{a}}", Reflect) /\ result = "B"

====
